---- MODULE Spec2Model ----
(***************************************************************************)
(* Manufacturing data platform: the SQLite data-access layer (dal.py) and  *)
(* the query wrappers (queries.py), modelled over the relational store.    *)
(*                                                                         *)
(* Timestamps are the fixed-width strings 'YYYY-MM-DDTHH:MM:SSZ'; their    *)
(* lexicographic order (the SQL filters) and their parsed order (strptime, *)
(* strftime('%s')) coincide, so an instant is modelled as the number of    *)
(* minutes since 2025-12-07T00:00:00Z, the start of the demo window (every  *)
(* instant of the runs falls on a whole minute).                           *)
(* Hours are reported rounded to 2 decimals and utilization to 4: the      *)
(* model keeps them as integers in hundredths and in ten-thousandths.      *)
(* The column operations.defect_code is read by no query and is left out.  *)
(* connection is the state of the database connection the last call        *)
(* opened, as its caller finds it when the call has returned or raised.    *)
(***************************************************************************)
EXTENDS Integers, Sequences, FiniteSets, TLC

VARIABLES work_orders, operations, downtime_events, last, connection

vars == <<work_orders, operations, downtime_events, last, connection>>

\* ------------------------------------------------------------------ bounds

\* The most rows work_orders and operations hold in a run (provisioned rows
\* included): the writer is not called on a full table.
MaxOrders == 2
MaxOps == 2

\* ------------------------------------------------------------- the store

\* products(id, name) and machines(id, name): provisioned once, never written.
Products == {[id |-> 1, name |-> "Widget A"], [id |-> 2, name |-> "Widget B"]}
Machines == {[id |-> 1, name |-> "Machine 1"], [id |-> 2, name |-> "Machine 2"]}

\* machine_id = None (SQL NULL).
NoMachine == 0

\* The plant every created work order is attached to.
DefaultPlant == 1

Statuses == {"planned", "released", "delayed", "in_progress", "completed", "cancelled"}

ProductExists(pid) == \E p \in Products : p.id = pid
MachineExists(mid) == \E m \in Machines : m.id = mid
ProductName(pid) == (CHOOSE p \in Products : p.id = pid).name
WorkOrderExists(wos, wid) == \E i \in 1..Len(wos) : wos[i].id = wid

\* ---------------------------------------------------------------- errors

NoErr == [cls |-> "none", msg |-> "none"]
ValueError(m) == [cls |-> "ValueError", msg |-> m]
\* A datastore-level error raised by the INSERT (constraint violation,
\* connectivity): it propagates unmodified to the caller.
DatabaseError == [cls |-> "sqlite3.Error", msg |-> "insert failed"]

NoCall == [call |-> "none", args |-> <<>>, err |-> NoErr, result |-> <<>>]

\* ----------------------------------------------------------- connections

\* No connection: the call raised before it reached get_conn().
NoConnection == "none"

\* get_conn() / _conn(): sqlite3.connect(DB_PATH) hands back an open connection.
GetConn == "open"

\* Leaving `with get_conn() as conn:`: the context manager of a
\* sqlite3.Connection commits (normal exit) or rolls back (exception) and
\* returns; it does not close the connection.
WithExit(conn) == conn

\* No function calls conn.close(). Once the function has returned, the
\* connection is unreferenced and is closed only if and when the runtime
\* finalizes the object: at once under reference counting, at some later
\* collection otherwise.
Finalized(conn) == {conn, "closed"}

\* The connection when the call completes. opened: the call reached
\* get_conn(). When the call raises inside the with block, the traceback of the
\* propagating exception still references the frame and its connection, which
\* no finalizer can have closed yet.
ConnectionAfter(opened, err) ==
    IF ~opened THEN {NoConnection}
    ELSE IF err = NoErr THEN Finalized(WithExit(GetConn))
    ELSE {WithExit(GetConn)}

\* create_work_order checks planned_qty and the window before get_conn().
CreateOpensConnection(qty, ps, pe) == qty > 0 /\ ps < pe

\* ---------------------------------------------------------------- writer

\* The row create_work_order inserts; SQLite assigns rowid = max(rowid) + 1,
\* and no row is ever deleted, so the new id is the row count plus one.
NewWorkOrderRow(wos, pid, qty, ps, pe, mid) ==
    [id |-> Len(wos) + 1, product_id |-> pid, plant_id |-> DefaultPlant,
     planned_qty |-> qty, status |-> "planned",
     planned_start |-> ps, planned_end |-> pe, machine_id |-> mid]

\* Mutant: the argument checks run after the existence checks.
CreateErrorExistenceFirst(pid, qty, ps, pe, mid) ==
    IF ~ProductExists(pid) THEN ValueError("product_id not found")
    ELSE IF mid # NoMachine /\ ~MachineExists(mid) THEN ValueError("machine_id not found")
    ELSE IF qty <= 0 THEN ValueError("planned_qty must be > 0")
    ELSE IF ps >= pe THEN ValueError("planned_start must be < planned_end")
    ELSE NoErr

\* The checks of create_work_order, in the order the code makes them.
CreateError(pid, qty, ps, pe, mid) ==
    IF qty <= 0 THEN ValueError("planned_qty must be > 0")
    ELSE IF ps >= pe THEN ValueError("planned_start must be < planned_end")
    ELSE IF ~ProductExists(pid) THEN ValueError("product_id not found")
    ELSE IF mid # NoMachine /\ ~MachineExists(mid) THEN ValueError("machine_id not found")
    ELSE NoErr

\* Mutant: the row is inserted and committed before the machine is checked.
CreateTableInsertBeforeMachineCheck(wos, pid, qty, ps, pe, mid, err) ==
    IF qty > 0 /\ ps < pe /\ ProductExists(pid)
    THEN Append(wos, NewWorkOrderRow(wos, pid, qty, ps, pe, mid))
    ELSE wos

\* work_orders after the call: the INSERT runs only when every check passed,
\* and `with conn` rolls the transaction back when the block raises.
CreateTable(wos, pid, qty, ps, pe, mid, err) ==
    IF err = NoErr
    THEN Append(wos, NewWorkOrderRow(wos, pid, qty, ps, pe, mid))
    ELSE wos

\* Mutant: lastrowid off by one (the row count before the insert).
CreateResultStale(wos, err) == IF err = NoErr THEN Len(wos) ELSE 0

\* The value returned: cur.lastrowid of the inserted row (0 when the call raised).
CreateResult(wos, err) == IF err = NoErr THEN Len(wos) + 1 ELSE 0

\* create_work_order(product_id, planned_qty, planned_start, planned_end, machine_id);
\* fault: the INSERT raises a datastore-level error.
CreateWorkOrder(pid, qty, ps, pe, mid, fault) ==
    LET chk == CreateError(pid, qty, ps, pe, mid)
        err == IF chk = NoErr /\ fault THEN DatabaseError ELSE chk
    IN  /\ err = NoErr => Len(work_orders) < MaxOrders
        /\ work_orders' = CreateTable(work_orders, pid, qty, ps, pe, mid, err)
        /\ last' = [call |-> "create_work_order",
                    args |-> [product_id |-> pid, planned_qty |-> qty,
                              planned_start |-> ps, planned_end |-> pe,
                              machine_id |-> mid, fault |-> fault],
                    err |-> err,
                    result |-> CreateResult(work_orders, err)]
        /\ connection' \in ConnectionAfter(CreateOpensConnection(qty, ps, pe), err)
        /\ UNCHANGED <<operations, downtime_events>>

\* The row add_production_record inserts.
NewOperationRow(ops, wid, mid, os, oe, good, scrap) ==
    [id |-> Len(ops) + 1, work_order_id |-> wid, machine_id |-> mid,
     op_start |-> os, op_end |-> oe, good_qty |-> good, scrap_qty |-> scrap]

\* The checks of add_production_record: the work order, then the machine.
\* Neither the interval nor the quantities are validated.
AddError(wos, wid, mid) ==
    IF ~WorkOrderExists(wos, wid) THEN ValueError("work_order_id not found")
    ELSE IF ~MachineExists(mid) THEN ValueError("machine_id not found")
    ELSE NoErr

\* operations after the call.
AddTable(ops, wid, mid, os, oe, good, scrap, err) ==
    IF err = NoErr
    THEN Append(ops, NewOperationRow(ops, wid, mid, os, oe, good, scrap))
    ELSE ops

\* add_production_record(work_order_id, machine_id, op_start, op_end, good_qty, scrap_qty);
\* fault: the INSERT raises a datastore-level error.
AddProductionRecord(wid, mid, os, oe, good, scrap, fault) ==
    LET chk == AddError(work_orders, wid, mid)
        err == IF chk = NoErr /\ fault THEN DatabaseError ELSE chk
    IN  /\ err = NoErr => Len(operations) < MaxOps
        /\ operations' = AddTable(operations, wid, mid, os, oe, good, scrap, err)
        /\ last' = [call |-> "add_production_record",
                    args |-> [work_order_id |-> wid, machine_id |-> mid,
                              op_start |-> os, op_end |-> oe,
                              good_qty |-> good, scrap_qty |-> scrap, fault |-> fault],
                    err |-> err,
                    result |-> <<>>]
        /\ connection' \in ConnectionAfter(TRUE, err)
        /\ UNCHANGED <<work_orders, downtime_events>>

\* ------------------------------------------------------- WIP listing

\* The orders ORDER BY may return the rows of S in: ascending in key (a
\* function on S), rows with equal keys in any order.
OrderedBy(S, key) ==
    {s \in [1..Cardinality(S) -> S] :
        /\ \A i, j \in 1..Cardinality(S) : i # j => s[i] # s[j]
        /\ \A i, j \in 1..Cardinality(S) : i < j => key[s[i]] <= key[s[j]]}

\* ORDER BY w.planned_start
ByPlannedStart(S) == [r \in S |-> r.planned_start]

\* The columns both WIP queries select.
WipRow(w) ==
    [id |-> w.id, product |-> ProductName(w.product_id),
     planned_qty |-> w.planned_qty, status |-> w.status,
     planned_start |-> w.planned_start, planned_end |-> w.planned_end,
     machine_id |-> w.machine_id]

\* Mutant: the status exclusion is dropped from the window branch.
ListWipRowsWindowOnly(wos, now) ==
    {WipRow(wos[i]) : i \in {k \in 1..Len(wos) :
        /\ ProductExists(wos[k].product_id)
        /\ \/ wos[k].status = "in_progress"
           \/ (now >= wos[k].planned_start /\ now <= wos[k].planned_end)}}

\* The rows of list_wip's SELECT (queries.py): work_orders joined to products.
ListWipRows(wos, now) ==
    {WipRow(wos[i]) : i \in {k \in 1..Len(wos) :
        /\ ProductExists(wos[k].product_id)
        /\ \/ wos[k].status = "in_progress"
           \/ /\ now >= wos[k].planned_start
              /\ now <= wos[k].planned_end
              /\ wos[k].status \notin {"completed", "cancelled"}}}

\* The rows of get_wip_orders' SELECT (dal.py): the same statement.
GetWipOrdersRows(wos, now) ==
    {WipRow(wos[i]) : i \in {k \in 1..Len(wos) :
        /\ ProductExists(wos[k].product_id)
        /\ \/ wos[k].status = "in_progress"
           \/ /\ now >= wos[k].planned_start
              /\ now <= wos[k].planned_end
              /\ wos[k].status \notin {"completed", "cancelled"}}}

\* list_wip(now_iso)
ListWip(now) ==
    /\ \E rows \in OrderedBy(ListWipRows(work_orders, now),
                              ByPlannedStart(ListWipRows(work_orders, now))) :
          last' = [call |-> "list_wip", args |-> [now |-> now],
                   err |-> NoErr, result |-> rows]
    /\ connection' \in ConnectionAfter(TRUE, last'.err)
    /\ UNCHANGED <<work_orders, operations, downtime_events>>

\* get_wip_orders(now_iso)
GetWipOrders(now) ==
    /\ \E rows \in OrderedBy(GetWipOrdersRows(work_orders, now),
                              ByPlannedStart(GetWipOrdersRows(work_orders, now))) :
          last' = [call |-> "get_wip_orders", args |-> [now |-> now],
                   err |-> NoErr, result |-> rows]
    /\ connection' \in ConnectionAfter(TRUE, last'.err)
    /\ UNCHANGED <<work_orders, operations, downtime_events>>

\* ------------------------------------------------------- utilization

MinutesPerHour == 60

Max(a, b) == IF a >= b THEN a ELSE b

\* The integer nearest to n / d (d > 0): round(x, 2) of hours is
\* RoundDiv(100 * minutes, 60) hundredths, round(x, 4) of a ratio is
\* RoundDiv(10000 * n, d) ten-thousandths. No instant of the model makes a tie.
RoundDiv(n, d) ==
    IF n >= 0 THEN (2 * n + d) \div (2 * d) ELSE -((2 * (-n) + d) \div (2 * d))

RECURSIVE SumInts(_)
SumInts(xs) == IF xs = <<>> THEN 0 ELSE Head(xs) + SumInts(Tail(xs))

\* total_hours = max(0.0, (end_dt - start_dt).total_seconds() / 3600.0), in minutes.
TotalMinutes(start, end) == Max(0, end - start)

\* SUM((strftime('%s', op_end) - strftime('%s', op_start)) / 3600.0) over the
\* operations the LEFT JOIN matches to machine mid, in minutes; COALESCE gives 0
\* for a machine with none.
SimpleRuntimeMinutes(ops, mid, start, end) ==
    SumInts([i \in 1..Len(ops) |->
        IF ops[i].machine_id = mid /\ ops[i].op_start >= start /\ ops[i].op_end <= end
        THEN ops[i].op_end - ops[i].op_start
        ELSE 0])

\* runtime_seconds += max(0.0, (e - s).total_seconds()) over the operations of
\* machine mid with op_start >= start and op_end <= end.
RuntimeMinutes(ops, mid, start, end) ==
    SumInts([i \in 1..Len(ops) |->
        IF ops[i].machine_id = mid /\ ops[i].op_start >= start /\ ops[i].op_end <= end
        THEN Max(0, ops[i].op_end - ops[i].op_start)
        ELSE 0])

\* Mutant: a downtime event counts as soon as it overlaps the window.
DowntimeMinutesOverlapping(dts, mid, start, end) ==
    SumInts([i \in 1..Len(dts) |->
        IF dts[i].machine_id = mid /\ dts[i].dt_start <= end /\ dts[i].dt_end >= start
        THEN Max(0, dts[i].dt_end - dts[i].dt_start)
        ELSE 0])

\* downtime_hours += max(0.0, (de - ds).total_seconds()) / 3600.0 over the
\* downtime events of machine mid with dt_start >= start and dt_end <= end.
DowntimeMinutes(dts, mid, start, end) ==
    SumInts([i \in 1..Len(dts) |->
        IF dts[i].machine_id = mid /\ dts[i].dt_start >= start /\ dts[i].dt_end <= end
        THEN Max(0, dts[i].dt_end - dts[i].dt_start)
        ELSE 0])

\* available_hours of get_machine_utilization, in minutes.
AvailableMinutes(dts, mid, start, end, adjusted) ==
    IF adjusted
    THEN Max(0, TotalMinutes(start, end) - DowntimeMinutes(dts, mid, start, end))
    ELSE TotalMinutes(start, end)

\* Mutant: a machine with no available time is reported fully utilized.
UtilizationFullWhenIdle(runtime, available) ==
    IF available > 0 THEN RoundDiv(10000 * runtime, available) ELSE 10000

\* utilization = runtime / available if available > 0 else 0.0, rounded to 4
\* decimals (both variants guard the division the same way).
Utilization(runtime, available) ==
    IF available > 0 THEN RoundDiv(10000 * runtime, available) ELSE 0

Hundredths(minutes) == RoundDiv(100 * minutes, MinutesPerHour)

\* ORDER BY m.id
ByMachineId(S) == [r \in S |-> r.machine_id]
\* No ORDER BY: the datastore returns the rows in an order of its choosing.
Unordered(S) == [r \in S |-> 0]

\* One result row of machine_utilization_simple.
SimpleUtilizationRow(ops, m, start, end) ==
    [machine_id |-> m.id, machine_name |-> m.name,
     runtime_hours |-> Hundredths(SimpleRuntimeMinutes(ops, m.id, start, end)),
     total_hours |-> Hundredths(TotalMinutes(start, end)),
     utilization |-> Utilization(SimpleRuntimeMinutes(ops, m.id, start, end),
                                 TotalMinutes(start, end))]

\* One result row of get_machine_utilization.
UtilizationRow(ops, dts, m, start, end, adjusted) ==
    [machine_id |-> m.id, machine_name |-> m.name,
     runtime_hours |-> Hundredths(RuntimeMinutes(ops, m.id, start, end)),
     available_hours |-> Hundredths(AvailableMinutes(dts, m.id, start, end, adjusted)),
     downtime_hours |-> IF adjusted
                        THEN Hundredths(DowntimeMinutes(dts, m.id, start, end))
                        ELSE 0,
     utilization |-> Utilization(RuntimeMinutes(ops, m.id, start, end),
                                 AvailableMinutes(dts, m.id, start, end, adjusted))]

\* The rows of machine_utilization_simple: the LEFT JOIN keeps every machine.
SimpleUtilizationRows(ops, start, end) ==
    {SimpleUtilizationRow(ops, m, start, end) : m \in Machines}

\* The rows of get_machine_utilization: one per row of machines.
UtilizationRows(ops, dts, start, end, adjusted) ==
    {UtilizationRow(ops, dts, m, start, end, adjusted) : m \in Machines}

\* machine_utilization_simple(start_iso, end_iso): one row per machine
\* (GROUP BY m.id, m.name over a LEFT JOIN), ORDER BY m.id.
MachineUtilizationSimple(start, end) ==
    /\ \E rows \in OrderedBy(SimpleUtilizationRows(operations, start, end),
                              ByMachineId(SimpleUtilizationRows(operations, start, end))) :
          last' = [call |-> "machine_utilization_simple",
                   args |-> [start |-> start, end |-> end],
                   err |-> NoErr, result |-> rows]
    /\ connection' \in ConnectionAfter(TRUE, last'.err)
    /\ UNCHANGED <<work_orders, operations, downtime_events>>

\* get_machine_utilization(start_date, end_date, adjusted): one row per row of
\* SELECT id, name FROM machines, in the order the datastore returns them.
GetMachineUtilization(start, end, adjusted) ==
    /\ \E rows \in OrderedBy(
              UtilizationRows(operations, downtime_events, start, end, adjusted),
              Unordered(UtilizationRows(operations, downtime_events, start, end, adjusted))) :
          last' = [call |-> "get_machine_utilization",
                   args |-> [start |-> start, end |-> end, adjusted |-> adjusted],
                   err |-> NoErr, result |-> rows]
    /\ connection' \in ConnectionAfter(TRUE, last'.err)
    /\ UNCHANGED <<work_orders, operations, downtime_events>>

\* ------------------------------------- output, scrap and summary queries

\* The product a work order id belongs to (0 when no such work order).
ProductOfOrder(wos, wid) ==
    IF WorkOrderExists(wos, wid)
    THEN (CHOOSE w \in {wos[i] : i \in 1..Len(wos)} : w.id = wid).product_id
    ELSE 0

\* Indices of the operations joined to product pid through work_orders whose
\* interval lies in the window: o.op_start >= ? AND o.op_end <= ?.
ProductOpsInWindow(wos, ops, pid, start, end) ==
    {i \in 1..Len(ops) :
        /\ ProductOfOrder(wos, ops[i].work_order_id) = pid
        /\ ops[i].op_start >= start
        /\ ops[i].op_end <= end}

\* Indices of the operations joined to machine mid whose interval lies in the window.
MachineOpsInWindow(ops, mid, start, end) ==
    {i \in 1..Len(ops) :
        /\ ops[i].machine_id = mid
        /\ ops[i].op_start >= start
        /\ ops[i].op_end <= end}

\* SUM(good_qty), SUM(scrap_qty) and COUNT(DISTINCT work_order_id) over the
\* operations with index in I.
SumGood(ops, I) == SumInts([i \in 1..Len(ops) |-> IF i \in I THEN ops[i].good_qty ELSE 0])
SumScrap(ops, I) == SumInts([i \in 1..Len(ops) |-> IF i \in I THEN ops[i].scrap_qty ELSE 0])

\* Mutant: total_qty counts the good units only.
SumTotalGoodOnly(ops, I) == SumGood(ops, I)

\* SUM(o.good_qty + o.scrap_qty)
SumTotal(ops, I) ==
    SumInts([i \in 1..Len(ops) |-> IF i \in I THEN ops[i].good_qty + ops[i].scrap_qty ELSE 0])

\* Mutant: every operation counts as an order.
CountOrdersPerOperation(ops, I) == Cardinality(I)

\* COUNT(DISTINCT work_order_id)
CountOrders(ops, I) == Cardinality({ops[i].work_order_id : i \in I})

\* CASE WHEN total = 0 THEN 0.0 ELSE CAST(SUM(scrap_qty) AS REAL) / total END,
\* kept exact as the fraction num / den with den > 0.
ScrapRate(scrap, total) ==
    IF total = 0 THEN [num |-> 0, den |-> 1]
    ELSE IF total > 0 THEN [num |-> scrap, den |-> total]
    ELSE [num |-> -scrap, den |-> -total]

\* One row of a scrap-driver query, for the entity called name.
ScrapRow(column, name, ops, I) ==
    [key |-> column, name |-> name,
     scrap_qty |-> SumScrap(ops, I),
     total_qty |-> SumTotal(ops, I),
     scrap_rate |-> ScrapRate(SumScrap(ops, I), SumTotal(ops, I))]

\* ORDER BY scrap_qty DESC, scrap_rate DESC: row a may come before row b.
ScrapBefore(a, b) ==
    \/ a.scrap_qty > b.scrap_qty
    \/ /\ a.scrap_qty = b.scrap_qty
       /\ a.scrap_rate.num * b.scrap_rate.den >= b.scrap_rate.num * a.scrap_rate.den

ScrapOrdered(S) ==
    {s \in [1..Cardinality(S) -> S] :
        /\ \A i, j \in 1..Cardinality(S) : i # j => s[i] # s[j]
        /\ \A i, j \in 1..Cardinality(S) : i < j => ScrapBefore(s[i], s[j])}

\* The rows of top_scrap_by_product: inner joins, so a group exists only for
\* a product with an operation in the window.
TopScrapByProductRows(wos, ops, start, end) ==
    {ScrapRow("product_name", p.name, ops, ProductOpsInWindow(wos, ops, p.id, start, end)) :
        p \in {q \in Products : ProductOpsInWindow(wos, ops, q.id, start, end) # {}}}

\* The rows of top_scrap_by_machine.
TopScrapByMachineRows(ops, start, end) ==
    {ScrapRow("machine_name", m.name, ops, MachineOpsInWindow(ops, m.id, start, end)) :
        m \in {q \in Machines : MachineOpsInWindow(ops, q.id, start, end) # {}}}

\* top_scrap_by_product(start_iso, end_iso)
TopScrapByProduct(start, end) ==
    /\ \E rows \in ScrapOrdered(TopScrapByProductRows(work_orders, operations, start, end)) :
          last' = [call |-> "top_scrap_by_product",
                   args |-> [start |-> start, end |-> end],
                   err |-> NoErr, result |-> rows]
    /\ connection' \in ConnectionAfter(TRUE, last'.err)
    /\ UNCHANGED <<work_orders, operations, downtime_events>>

\* top_scrap_by_machine(start_iso, end_iso)
TopScrapByMachine(start, end) ==
    /\ \E rows \in ScrapOrdered(TopScrapByMachineRows(operations, start, end)) :
          last' = [call |-> "top_scrap_by_machine",
                   args |-> [start |-> start, end |-> end],
                   err |-> NoErr, result |-> rows]
    /\ connection' \in ConnectionAfter(TRUE, last'.err)
    /\ UNCHANGED <<work_orders, operations, downtime_events>>

\* The first 7 characters of a timestamp: December 2025 runs to 25 days after
\* the first instant, January 2026 follows.
DecemberEnd == 25 * 24 * 60
MonthPrefix(t) == IF t < DecemberEnd THEN "2025-12" ELSE "2026-01"

\* Indices of the operations joined to product pid that pass
\* WHERE o.op_start LIKE 'YYYY-MM%'.
ProductOpsInMonth(wos, ops, pid, month) ==
    {i \in 1..Len(ops) :
        /\ ProductOfOrder(wos, ops[i].work_order_id) = pid
        /\ MonthPrefix(ops[i].op_start) = month}

\* The rows of product_output_by_month: the WHERE clause on o.op_start drops
\* the NULL-extended rows of the LEFT JOINs, so a group exists only for a
\* product with an operation that starts in the month.
ProductOutputRows(wos, ops, month) ==
    {[product_id |-> p.id, product_name |-> p.name,
      good_qty |-> SumGood(ops, ProductOpsInMonth(wos, ops, p.id, month)),
      scrap_qty |-> SumScrap(ops, ProductOpsInMonth(wos, ops, p.id, month)),
      num_orders |-> CountOrders(ops, ProductOpsInMonth(wos, ops, p.id, month))] :
        p \in {q \in Products : ProductOpsInMonth(wos, ops, q.id, month) # {}}}

\* ORDER BY p.name: the provisioned names sort in the order of their ids.
ByProductName(S) == [r \in S |-> r.product_id]

\* product_output_by_month(month_prefix); the rows carry product_name,
\* good_qty, scrap_qty and num_orders (product_id is the sort key of the name).
ProductOutputByMonth(month) ==
    /\ \E rows \in OrderedBy(ProductOutputRows(work_orders, operations, month),
                             ByProductName(ProductOutputRows(work_orders, operations, month))) :
          last' = [call |-> "product_output_by_month", args |-> [month |-> month],
                   err |-> NoErr, result |-> rows]
    /\ connection' \in ConnectionAfter(TRUE, last'.err)
    /\ UNCHANGED <<work_orders, operations, downtime_events>>

\* SELECT id, name FROM products WHERE name = ?
ProductsNamed(name) == {p \in Products : p.name = name}

\* The mapping get_product_summary returns for product p.
ProductSummary(wos, ops, p, start, end) ==
    [product_id |-> p.id, product_name |-> p.name,
     good_qty |-> SumGood(ops, ProductOpsInWindow(wos, ops, p.id, start, end)),
     scrap_qty |-> SumScrap(ops, ProductOpsInWindow(wos, ops, p.id, start, end)),
     num_orders |-> CountOrders(ops, ProductOpsInWindow(wos, ops, p.id, start, end))]

\* get_product_summary(product_name, start_date, end_date)
GetProductSummary(name, start, end) ==
    /\ last' = [call |-> "get_product_summary",
                args |-> [product_name |-> name, start |-> start, end |-> end],
                err |-> IF ProductsNamed(name) = {}
                        THEN ValueError("Product not found") ELSE NoErr,
                result |-> IF ProductsNamed(name) = {} THEN <<>>
                           ELSE ProductSummary(work_orders, operations,
                                               CHOOSE p \in ProductsNamed(name) : TRUE,
                                               start, end)]
    /\ connection' \in ConnectionAfter(TRUE, last'.err)
    /\ UNCHANGED <<work_orders, operations, downtime_events>>

\* ------------------------------------------- specification: the writer

\* Identifiers 3 (product, machine) and 9 (work order) reference no row.
WriterProducts == {1, 2, 3}
WriterQtys == {0, 1}
WriterTimes == {1, 2}
WriterMachines == {NoMachine, 1, 3}

InitWriter ==
    /\ work_orders = <<>>
    /\ operations = <<>>
    /\ downtime_events = {}
    /\ last = NoCall
    /\ connection = NoConnection

NextWriter ==
    \/ \E pid \in WriterProducts, qty \in WriterQtys, ps \in WriterTimes,
          pe \in WriterTimes, mid \in WriterMachines, fault \in BOOLEAN :
          CreateWorkOrder(pid, qty, ps, pe, mid, fault)
    \/ \E wid \in {1, 9}, mid \in {1, 3}, fault \in BOOLEAN :
          AddProductionRecord(wid, mid, 1, 2, 1, 0, fault)

SpecWriter == InitWriter /\ [][NextWriter]_vars

\* ------------------------------------------------------- claims: writer

WriterCalls == {"create_work_order", "add_production_record"}

\* The arguments of a create_work_order call pass every check of the contract.
ValidCreateArgs(a) ==
    /\ a.planned_qty > 0
    /\ a.planned_start < a.planned_end
    /\ ProductExists(a.product_id)
    /\ a.machine_id = NoMachine \/ MachineExists(a.machine_id)

\* C1: a create_work_order or add_production_record call that ends in an
\* error (a failed validation, a missing product, machine or work order, a
\* failing insert) leaves work_orders and operations exactly as they were.
C1_FailedWriteLeavesTables ==
    [][(last'.call \in WriterCalls /\ last'.err # NoErr)
         => (work_orders' = work_orders /\ operations' = operations)]_vars

\* C1 witness: a call failed on a missing machine after the other checks
\* passed, with rows already in the table.
C1_Witness ==
    /\ last.call = "create_work_order"
    /\ last.err = ValueError("machine_id not found")
    /\ Len(work_orders) > 0

\* C2: create_work_order with valid inputs (and an insert the datastore
\* accepts) adds exactly one work_orders row carrying the given product,
\* quantity, window and machine with status 'planned' and the default plant,
\* leaves every existing row unchanged and returns the new row's identifier,
\* which is greater than every identifier returned before; every created row
\* stays retrievable under its identifier with status 'planned'.
C2_CreateAddsOnePlannedRow ==
    /\ [][(last'.call = "create_work_order" /\ ValidCreateArgs(last'.args)
             /\ ~last'.args.fault)
           => /\ last'.err = NoErr
              /\ Len(work_orders') = Len(work_orders) + 1
              /\ SubSeq(work_orders', 1, Len(work_orders)) = work_orders
              /\ operations' = operations
              /\ LET r == work_orders'[Len(work_orders')]
                     a == last'.args
                 IN  /\ r.id = last'.result
                     /\ r.product_id = a.product_id
                     /\ r.planned_qty = a.planned_qty
                     /\ r.planned_start = a.planned_start
                     /\ r.planned_end = a.planned_end
                     /\ r.machine_id = a.machine_id
                     /\ r.status = "planned"
                     /\ r.plant_id = DefaultPlant
              /\ \A i \in 1..Len(work_orders) : work_orders[i].id < last'.result]_vars
    /\ [](\A i \in 1..Len(work_orders) :
            /\ work_orders[i].status = "planned"
            /\ Cardinality({j \in 1..Len(work_orders) :
                              work_orders[j].id = work_orders[i].id}) = 1)

\* C2 witness: a second successful call returned identifier 2.
C2_Witness ==
    /\ last.call = "create_work_order"
    /\ last.err = NoErr
    /\ last.result = 2
    /\ Len(work_orders) = 2
    /\ work_orders[2].machine_id # NoMachine

\* C3 as stated: argument failures are reported as a ValidationError and
\* missing references as a NotFoundError, two distinguishable error kinds.
C3_TwoErrorKinds ==
    last.call = "create_work_order" =>
        LET a == last.args
            badArgs == a.planned_qty <= 0 \/ a.planned_start >= a.planned_end
            missing == \/ ~ProductExists(a.product_id)
                       \/ (a.machine_id # NoMachine /\ ~MachineExists(a.machine_id))
        IN  /\ badArgs => last.err.cls = "ValidationError"
            /\ (~badArgs /\ missing) => last.err.cls = "NotFoundError"

\* C3 amended: every failure of the checks is a ValueError, told apart by its
\* message only: the quantity message when planned_qty <= 0, else the window
\* message when planned_start >= planned_end, else a not-found message for a
\* missing product or a supplied missing machine; the argument checks come
\* first, so a call that violates both kinds carries an argument message.
C3_OneKindArgumentChecksFirst ==
    last.call = "create_work_order" =>
        LET a == last.args
            badQty == a.planned_qty <= 0
            badWindow == a.planned_start >= a.planned_end
            noProduct == ~ProductExists(a.product_id)
            noMachine == a.machine_id # NoMachine /\ ~MachineExists(a.machine_id)
        IN  /\ badQty => last.err = ValueError("planned_qty must be > 0")
            /\ (~badQty /\ badWindow)
                 => last.err = ValueError("planned_start must be < planned_end")
            /\ (~badQty /\ ~badWindow /\ noProduct)
                 => last.err = ValueError("product_id not found")
            /\ (~badQty /\ ~badWindow /\ ~noProduct /\ noMachine)
                 => last.err = ValueError("machine_id not found")
            /\ (badQty \/ badWindow \/ noProduct \/ noMachine) => last.result = 0

\* C3 witness: a call with planned_start = planned_end and a missing product
\* failed on the window check.
C3_Witness ==
    /\ last.call = "create_work_order"
    /\ last.args.planned_qty > 0
    /\ last.args.planned_start = last.args.planned_end
    /\ ~ProductExists(last.args.product_id)
    /\ last.err = ValueError("planned_start must be < planned_end")

\* ------------------------------------------ specification: WIP listing

\* A provisioned work order: any status (status changes are made outside
\* this code), a valid product and a window with planned_start < planned_end.
SeedOrder(i, pid, st, ps, pe) ==
    [id |-> i, product_id |-> pid, plant_id |-> DefaultPlant, planned_qty |-> 1,
     status |-> st, planned_start |-> ps, planned_end |-> pe, machine_id |-> NoMachine]

WipTimes == 1..3
WipNows == 0..4

InitWip ==
    /\ \E st \in Statuses, ps \in {1, 2} :
          work_orders = <<SeedOrder(1, 2, st, ps, ps + 1)>>
    /\ operations = <<>>
    /\ downtime_events = {}
    /\ last = NoCall
    /\ connection = NoConnection

NextWip ==
    \/ \E now \in WipNows : ListWip(now)
    \/ \E now \in WipNows : GetWipOrders(now)
    \/ \E ps \in WipTimes, pe \in WipTimes : CreateWorkOrder(1, 1, ps, pe, 1, FALSE)

SpecWip == InitWip /\ [][NextWip]_vars

\* C4: list_wip(now) and get_wip_orders(now) return exactly the work orders
\* with status 'in_progress' or with planned_start <= now <= planned_end and a
\* status other than 'completed' and 'cancelled', one row per such order,
\* each row carrying that order's columns, ordered by planned_start ascending.
C4_WipMembershipAndOrder ==
    last.call \in {"list_wip", "get_wip_orders"} =>
        LET now == last.args.now
            rows == last.result
            wip == {i \in 1..Len(work_orders) :
                      \/ work_orders[i].status = "in_progress"
                      \/ /\ work_orders[i].planned_start <= now
                         /\ now <= work_orders[i].planned_end
                         /\ work_orders[i].status # "completed"
                         /\ work_orders[i].status # "cancelled"}
        IN  /\ last.err = NoErr
            /\ Len(rows) = Cardinality(wip)
            /\ {rows[k].id : k \in 1..Len(rows)} = {work_orders[i].id : i \in wip}
            /\ \A k \in 1..Len(rows) : \E i \in wip :
                  /\ rows[k].id = work_orders[i].id
                  /\ rows[k].status = work_orders[i].status
                  /\ rows[k].planned_qty = work_orders[i].planned_qty
                  /\ rows[k].planned_start = work_orders[i].planned_start
                  /\ rows[k].planned_end = work_orders[i].planned_end
                  /\ rows[k].machine_id = work_orders[i].machine_id
                  /\ \E p \in Products :
                        p.id = work_orders[i].product_id /\ p.name = rows[k].product
            /\ \A k \in 1..(Len(rows) - 1) :
                  rows[k].planned_start <= rows[k + 1].planned_start

\* C4 witness: an 'in_progress' order whose window does not contain now is
\* listed after a planned order that starts earlier.
C4_Witness ==
    /\ last.call = "get_wip_orders"
    /\ Len(last.result) = 2
    /\ last.result[2].status = "in_progress"
    /\ last.result[2].planned_start > last.args.now
    /\ last.result[1].id = 2

\* A 'completed' order whose window contains now is left out of the listing.
C4_CompletedInWindowReached ==
    /\ last.call = "list_wip"
    /\ \E i \in 1..Len(work_orders) :
          /\ work_orders[i].status = "completed"
          /\ work_orders[i].planned_start <= last.args.now
          /\ last.args.now <= work_orders[i].planned_end
    /\ Len(last.result) = 1

\* ------------------------------------------ specification: utilization

\* Instants of the utilization runs: the window start, 20 minutes, 18, 24 and
\* 48 hours after it.
T0 == 0
T20m == MinutesPerHour \div 3
T18h == 18 * MinutesPerHour
T24h == 24 * MinutesPerHour
T48h == 48 * MinutesPerHour

DowntimeEvent(i, mid, ds, de) == [id |-> i, machine_id |-> mid, dt_start |-> ds, dt_end |-> de]

\* The provisioned downtime_events tables of the runs: none; 6 hours on
\* machine 1; the whole 48 hours on machine 1; 6 hours plus a reversed event.
UtilDowntimes ==
    { <<>>,
      <<DowntimeEvent(1, 1, T18h, T24h)>>,
      <<DowntimeEvent(1, 1, T0, T48h)>>,
      <<DowntimeEvent(1, 1, T18h, T24h), DowntimeEvent(2, 1, T24h, T18h)>> }

\* The operation intervals recorded: 18 hours, 20 minutes, an empty one and a
\* reversed one (add_production_record validates neither).
UtilOpSpans == {<<T0, T18h>>, <<T0, T20m>>, <<T20m, T20m>>, <<T18h, T20m>>}

\* The operations recorded: each interval on machine 1, 18 hours on machine 2.
UtilOps == {<<1, span[1], span[2]>> : span \in UtilOpSpans} \cup {<<2, T0, T18h>>}

\* The query windows: every pair of these, zero-length and inverted included.
UtilWindowTimes == {T0, T18h, T48h}

InitUtil ==
    /\ work_orders = <<SeedOrder(1, 1, "in_progress", T0, T48h)>>
    /\ operations = <<>>
    /\ downtime_events \in UtilDowntimes
    /\ last = NoCall
    /\ connection = NoConnection

NextUtil ==
    \/ \E op \in UtilOps :
          AddProductionRecord(1, op[1], op[2], op[3], 1, 0, FALSE)
    \/ \E start \in UtilWindowTimes, end \in UtilWindowTimes :
          MachineUtilizationSimple(start, end)
    \/ \E start \in UtilWindowTimes, end \in UtilWindowTimes, adjusted \in BOOLEAN :
          GetMachineUtilization(start, end, adjusted)

SpecUtil == InitUtil /\ [][NextUtil]_vars

UtilizationCalls == {"machine_utilization_simple", "get_machine_utilization"}

\* The operations of machine mid fully contained in the window.
ContainedOps(mid, start, end) ==
    {i \in 1..Len(operations) :
        /\ operations[i].machine_id = mid
        /\ operations[i].op_start >= start
        /\ operations[i].op_end <= end}

\* The downtime events of machine mid fully contained in the window.
ContainedDowntimes(mid, start, end) ==
    {i \in 1..Len(downtime_events) :
        /\ downtime_events[i].machine_id = mid
        /\ downtime_events[i].dt_start >= start
        /\ downtime_events[i].dt_end <= end}

\* The sum of the clamped durations of the contained operations: a malformed
\* operation (op_end <= op_start) adds 0.
ClampedRuntime(mid, start, end) ==
    SumInts([i \in 1..Len(operations) |->
        IF i \in ContainedOps(mid, start, end)
           /\ operations[i].op_end > operations[i].op_start
        THEN operations[i].op_end - operations[i].op_start
        ELSE 0])

\* The sum of the clamped durations of the contained downtime events.
ClampedDowntime(mid, start, end) ==
    SumInts([i \in 1..Len(downtime_events) |->
        IF i \in ContainedDowntimes(mid, start, end)
           /\ downtime_events[i].dt_end > downtime_events[i].dt_start
        THEN downtime_events[i].dt_end - downtime_events[i].dt_start
        ELSE 0])

\* q is n / d rounded to the nearest integer (d > 0).
IsRounded(q, n, d) == 2 * (q * d - n) <= d /\ 2 * (n - q * d) <= d

\* C5: in machine_utilization_simple and in get_machine_utilization, an
\* operation with op_end <= op_start that passes the window filter adds
\* exactly 0 to its machine's runtime_hours: the reported runtime_hours is the
\* sum of the clamped durations, never negative.
C5_MalformedOperationAddsZero ==
    last.call \in UtilizationCalls =>
        \A k \in 1..Len(last.result) :
            LET row == last.result[k]
            IN  /\ row.runtime_hours >= 0
                /\ IsRounded(row.runtime_hours,
                             100 * ClampedRuntime(row.machine_id, last.args.start,
                                                  last.args.end),
                             MinutesPerHour)

\* The part of C5 that holds: get_machine_utilization clamps every duration.
C5_DalClampsMalformed ==
    last.call = "get_machine_utilization" =>
        \A k \in 1..Len(last.result) :
            LET row == last.result[k]
            IN  /\ row.runtime_hours >= 0
                /\ IsRounded(row.runtime_hours,
                             100 * ClampedRuntime(row.machine_id, last.args.start,
                                                  last.args.end),
                             MinutesPerHour)

\* A reversed operation is inside the window of a get_machine_utilization call.
C5_DalReached ==
    /\ last.call = "get_machine_utilization"
    /\ \E i \in ContainedOps(1, last.args.start, last.args.end) :
          operations[i].op_end < operations[i].op_start

\* The hours a call divides by, per machine: the window, less the contained
\* downtime in the adjusted variant, never below 0.
AvailableOf(mid) ==
    LET total == IF last.args.end > last.args.start
                 THEN last.args.end - last.args.start ELSE 0
        down == ClampedDowntime(mid, last.args.start, last.args.end)
    IN  IF last.call = "get_machine_utilization" /\ last.args.adjusted
        THEN (IF total > down THEN total - down ELSE 0)
        ELSE total

\* The runtime a call divides: the sum each variant computes.
RuntimeOf(mid) ==
    IF last.call = "get_machine_utilization"
    THEN RuntimeMinutes(operations, mid, last.args.start, last.args.end)
    ELSE SimpleRuntimeMinutes(operations, mid, last.args.start, last.args.end)

\* C8: whenever available_hours is 0 (a zero-length or inverted window, or in
\* the adjusted variant downtime at least as large as the window) the reported
\* utilization is exactly 0 and the call returns normally; otherwise it is
\* runtime_hours / available_hours (to 4 decimals).
C8_ZeroAvailableGivesZero ==
    last.call \in UtilizationCalls =>
        /\ last.err = NoErr
        /\ Len(last.result) = Cardinality(Machines)
        /\ \A k \in 1..Len(last.result) :
              LET row == last.result[k]
                  available == AvailableOf(row.machine_id)
              IN  /\ available = 0 => row.utilization = 0
                  /\ available > 0 =>
                        IsRounded(row.utilization,
                                  10000 * RuntimeOf(row.machine_id), available)

\* C8 witness: downtime covers the whole window of an adjusted call on a
\* machine that ran 18 hours in it, and the call reports utilization 0.
C8_Witness ==
    /\ last.call = "get_machine_utilization"
    /\ last.args.adjusted
    /\ last.args.end > last.args.start
    /\ \E k \in 1..Len(last.result) :
          /\ last.result[k].runtime_hours = 1800
          /\ last.result[k].available_hours = 0
          /\ last.result[k].utilization = 0

\* The 48-hour scenario: machine mid ran 18 hours (no malformed operation)
\* and was down 6 hours inside the window of the call.
Scenario48(mid) ==
    /\ last.args.end - last.args.start = 48 * MinutesPerHour
    /\ ClampedRuntime(mid, last.args.start, last.args.end) = 18 * MinutesPerHour
    /\ \A i \in ContainedOps(mid, last.args.start, last.args.end) :
          operations[i].op_end >= operations[i].op_start
    /\ ClampedDowntime(mid, last.args.start, last.args.end) = 6 * MinutesPerHour

\* C9: get_machine_utilization with adjusted = true reports downtime_hours as
\* the sum of the clamped durations of the machine's downtime events fully
\* contained in the window and available_hours = max(0, total - downtime);
\* with adjusted = false it reports downtime_hours = 0 and available_hours =
\* total_hours. 18 runtime hours and 6 downtime hours in a 48-hour window give
\* available_hours 42 and utilization 0.4286 adjusted, 0.375 simple.
C9_AdjustedSubtractsContainedDowntime ==
    /\ last.call = "get_machine_utilization" =>
          \A k \in 1..Len(last.result) :
              LET row == last.result[k]
                  total == IF last.args.end > last.args.start
                           THEN last.args.end - last.args.start ELSE 0
                  down == ClampedDowntime(row.machine_id, last.args.start, last.args.end)
              IN  /\ last.args.adjusted =>
                        /\ IsRounded(row.downtime_hours, 100 * down, MinutesPerHour)
                        /\ IsRounded(row.available_hours,
                                     100 * (IF total > down THEN total - down ELSE 0),
                                     MinutesPerHour)
                  /\ ~last.args.adjusted =>
                        /\ row.downtime_hours = 0
                        /\ IsRounded(row.available_hours, 100 * total, MinutesPerHour)
                  /\ Scenario48(row.machine_id) =>
                        IF last.args.adjusted
                        THEN row.available_hours = 4200 /\ row.utilization = 4286
                        ELSE row.available_hours = 4800 /\ row.utilization = 3750
    /\ last.call = "machine_utilization_simple" =>
          \A k \in 1..Len(last.result) :
              Scenario48(last.result[k].machine_id) =>
                  /\ last.result[k].total_hours = 4800
                  /\ last.result[k].utilization = 3750

\* C9 witness: the scenario, adjusted, with a reversed second downtime event
\* in the window adding nothing to the 6 hours.
C9_Witness ==
    /\ last.call = "get_machine_utilization"
    /\ last.args.adjusted
    /\ Len(downtime_events) = 2
    /\ \E k \in 1..Len(last.result) :
          /\ Scenario48(last.result[k].machine_id)
          /\ last.result[k].available_hours = 4200
          /\ last.result[k].utilization = 4286

\* ----------------------- specification: output, scrap and summary queries

\* The first instant of January 2026.
TJan == DecemberEnd

\* The provisioned work orders: 1, 2 and 3 make Widget A, 4 makes Widget B.
OutputOrders ==
    <<SeedOrder(1, 1, "completed", T0, T48h), SeedOrder(2, 1, "completed", T0, T48h),
      SeedOrder(3, 1, "in_progress", T0, T48h), SeedOrder(4, 2, "released", T0, T48h)>>

\* Widget A: 200 good and 20 scrap units over three work orders in 48 hours.
ScenarioOps ==
    <<NewOperationRow(<<>>, 1, 1, T0, T18h, 100, 10),
      [NewOperationRow(<<>>, 2, 1, T18h, T24h, 60, 6) EXCEPT !.id = 2],
      [NewOperationRow(<<>>, 3, 2, T0, T24h, 40, 4) EXCEPT !.id = 3]>>

\* The operations recorded: <<work order, machine, start, end, good, scrap>>.
\* Good units only; a second order of the same product; nothing produced; a
\* negative good count (not validated); a January operation; one that ends
\* after 18 hours.
OutputOps ==
    { <<1, 1, T0, T18h, 1, 0>>,
      <<2, 1, T0, T18h, 2, 1>>,
      <<4, 2, T0, T18h, 0, 0>>,
      <<4, 2, T20m, T18h, -2, 1>>,
      <<1, 2, TJan, TJan + T20m, 1, 1>>,
      <<2, 1, T18h, T48h, 0, 1>> }

OutputStarts == {T0, T20m}
OutputEnds == {T18h, T48h}
OutputNames == {"Widget A", "Widget B", "Widget C"}
OutputMonths == {"2025-12", "2026-01"}

InitOutput ==
    /\ work_orders = OutputOrders
    /\ operations \in {<<>>, ScenarioOps}
    /\ downtime_events = <<>>
    /\ last = NoCall
    /\ connection = NoConnection

NextOutput ==
    \/ \E op \in OutputOps :
          AddProductionRecord(op[1], op[2], op[3], op[4], op[5], op[6], FALSE)
    \/ \E start \in OutputStarts, end \in OutputEnds : TopScrapByProduct(start, end)
    \/ \E start \in OutputStarts, end \in OutputEnds : TopScrapByMachine(start, end)
    \/ \E month \in OutputMonths : ProductOutputByMonth(month)
    \/ \E name \in OutputNames, start \in OutputStarts, end \in OutputEnds :
          GetProductSummary(name, start, end)
    \/ \E end \in OutputEnds : MachineUtilizationSimple(T0, end)
    \/ \E end \in OutputEnds, adjusted \in BOOLEAN : GetMachineUtilization(T0, end, adjusted)

SpecOutput == InitOutput /\ [][NextOutput]_vars

ScrapCalls == {"top_scrap_by_product", "top_scrap_by_machine"}

\* The operations a scrap-driver row aggregates: those of the product (through
\* its work orders) or of the machine the row names, fully inside the window.
MatchingOps(row) ==
    {i \in 1..Len(operations) :
        /\ operations[i].op_start >= last.args.start
        /\ operations[i].op_end <= last.args.end
        /\ IF row.key = "product_name"
           THEN \E w \in 1..Len(work_orders), p \in Products :
                   /\ work_orders[w].id = operations[i].work_order_id
                   /\ work_orders[w].product_id = p.id
                   /\ p.name = row.name
           ELSE \E m \in Machines :
                   m.id = operations[i].machine_id /\ m.name = row.name}

GoodOver(I) ==
    SumInts([i \in 1..Len(operations) |-> IF i \in I THEN operations[i].good_qty ELSE 0])
ScrapOver(I) ==
    SumInts([i \in 1..Len(operations) |-> IF i \in I THEN operations[i].scrap_qty ELSE 0])

\* C6 as stated: in every row of top_scrap_by_product and top_scrap_by_machine
\* total_qty = sum(good_qty) + sum(scrap_qty) over the matching operations,
\* scrap_rate lies in [0, 1], and scrap_rate = 0 exactly when total_qty = 0.
C6_RateZeroIffTotalZero ==
    last.call \in ScrapCalls =>
        \A k \in 1..Len(last.result) :
            LET row == last.result[k]
                I == MatchingOps(row)
            IN  /\ row.total_qty = GoodOver(I) + ScrapOver(I)
                /\ 0 <= row.scrap_rate.num
                /\ row.scrap_rate.num <= row.scrap_rate.den
                /\ (row.scrap_rate.num = 0) <=> (row.total_qty = 0)

\* C6 amended: total_qty = sum(good_qty) + sum(scrap_qty); scrap_rate is 0
\* when total_qty = 0 and sum(scrap_qty) / total_qty otherwise, so it is 0
\* exactly when total_qty = 0 or sum(scrap_qty) = 0; it lies in [0, 1] when
\* no matching operation has a negative quantity.
C6_RateZeroWhenTotalZero ==
    last.call \in ScrapCalls =>
        \A k \in 1..Len(last.result) :
            LET row == last.result[k]
                I == MatchingOps(row)
            IN  /\ I # {}
                /\ row.scrap_qty = ScrapOver(I)
                /\ row.total_qty = GoodOver(I) + ScrapOver(I)
                /\ row.scrap_rate.den > 0
                /\ row.total_qty = 0 => row.scrap_rate.num = 0
                /\ row.total_qty # 0 =>
                      row.scrap_rate.num * row.total_qty = ScrapOver(I) * row.scrap_rate.den
                /\ (row.scrap_rate.num = 0) <=> (row.total_qty = 0 \/ ScrapOver(I) = 0)
                /\ (\A i \in I : operations[i].good_qty >= 0 /\ operations[i].scrap_qty >= 0)
                      => (0 <= row.scrap_rate.num /\ row.scrap_rate.num <= row.scrap_rate.den)

\* C6 witness: a product with good units and no scrap in the window is
\* reported with total_qty > 0 and scrap_rate 0, next to a second row.
C6_Witness ==
    /\ last.call = "top_scrap_by_product"
    /\ Len(last.result) = 2
    /\ \E k \in 1..Len(last.result) :
          /\ last.result[k].total_qty > 0
          /\ last.result[k].scrap_qty = 0
          /\ last.result[k].scrap_rate.num = 0

\* C7: machine_utilization_simple and get_machine_utilization return one row
\* for every machine and product_output_by_month one row for every product,
\* with zero sums for an entity without a matching operation; the scrap-driver
\* queries return a row only for an entity with an operation in the window.
C7_ZeroDefaultAndActivityOnly ==
    /\ last.call \in UtilizationCalls =>
          /\ Len(last.result) = Cardinality(Machines)
          /\ \A m \in Machines : \E k \in 1..Len(last.result) :
                /\ last.result[k].machine_id = m.id
                /\ ContainedOps(m.id, last.args.start, last.args.end) = {}
                      => last.result[k].runtime_hours = 0
    /\ last.call = "product_output_by_month" =>
          /\ Len(last.result) = Cardinality(Products)
          /\ \A p \in Products : \E k \in 1..Len(last.result) :
                /\ last.result[k].product_name = p.name
                /\ (\A i \in 1..Len(operations) :
                       ~(/\ ProductOfOrder(work_orders, operations[i].work_order_id) = p.id
                         /\ MonthPrefix(operations[i].op_start) = last.args.month))
                      => /\ last.result[k].good_qty = 0
                         /\ last.result[k].scrap_qty = 0
                         /\ last.result[k].num_orders = 0
    /\ last.call \in ScrapCalls =>
          \A k \in 1..Len(last.result) : MatchingOps(last.result[k]) # {}

\* The parts of C7 that hold: the utilization queries list every machine and
\* the scrap-driver queries only entities with an operation in the window.
C7_HoldsButForMonthlyOutput ==
    /\ last.call \in UtilizationCalls =>
          /\ Len(last.result) = Cardinality(Machines)
          /\ \A m \in Machines : \E k \in 1..Len(last.result) :
                /\ last.result[k].machine_id = m.id
                /\ ContainedOps(m.id, last.args.start, last.args.end) = {}
                      => last.result[k].runtime_hours = 0
    /\ last.call \in ScrapCalls =>
          \A k \in 1..Len(last.result) : MatchingOps(last.result[k]) # {}

\* The operations get_product_summary aggregates for product pid.
SummaryOps(pid) ==
    {i \in 1..Len(operations) :
        /\ operations[i].op_start >= last.args.start
        /\ operations[i].op_end <= last.args.end
        /\ \E w \in 1..Len(work_orders) :
              /\ work_orders[w].id = operations[i].work_order_id
              /\ work_orders[w].product_id = pid}

\* What a successful get_product_summary call returns.
SummaryIsExact ==
    \A p \in Products : p.name = last.args.product_name =>
        /\ last.err = NoErr
        /\ last.result.product_id = p.id
        /\ last.result.product_name = p.name
        /\ last.result.good_qty = GoodOver(SummaryOps(p.id))
        /\ last.result.scrap_qty = ScrapOver(SummaryOps(p.id))
        /\ last.result.num_orders =
              Cardinality({operations[i].work_order_id : i \in SummaryOps(p.id)})
        /\ SummaryOps(p.id) = {} =>
              /\ last.result.good_qty = 0
              /\ last.result.scrap_qty = 0
              /\ last.result.num_orders = 0

NoProductNamed == \A p \in Products : p.name # last.args.product_name

\* C10 as stated: get_product_summary fails with NotFoundError when no product
\* has exactly that name; otherwise it returns the sums of good_qty and
\* scrap_qty and the number of distinct work orders over the operations of
\* that product fully inside the window (all 0 when none matches).
C10_SummaryOrNotFoundError ==
    last.call = "get_product_summary" =>
        /\ NoProductNamed => last.err.cls = "NotFoundError"
        /\ SummaryIsExact

\* C10 amended: as stated, except that the failure for an unknown name is a
\* ValueError (with a not-found message); and the call leaves the store as it was.
C10_SummaryOrValueError ==
    /\ [](last.call = "get_product_summary" =>
            /\ NoProductNamed => last.err = ValueError("Product not found")
            /\ SummaryIsExact)
    /\ [][last'.call = "get_product_summary" =>
            /\ work_orders' = work_orders
            /\ operations' = operations
            /\ downtime_events' = downtime_events]_vars

\* C10 witness: Widget A with 200 good and 20 scrap units over three work
\* orders in the window yields good_qty 200, scrap_qty 20, num_orders 3.
C10_Witness ==
    /\ last.call = "get_product_summary"
    /\ last.args.product_name = "Widget A"
    /\ last.err = NoErr
    /\ last.result.good_qty = 200
    /\ last.result.scrap_qty = 20
    /\ last.result.num_orders = 3

\* An unknown product name is reached too.
C10_UnknownNameReached ==
    /\ last.call = "get_product_summary"
    /\ NoProductNamed
    /\ last.err.cls = "ValueError"

\* ------------------------------------------------- claims: connections

\* C11: every query and write call has released (closed) the connection it
\* opened by the time the call completes, on the normal return path and on
\* every error path: after any sequence of calls, no connection opened by a
\* finished call is still open.
C11_NoConnectionLeftOpen ==
    last.call # "none" => connection # "open"

\* What the code gives instead: a call that raises an argument error opened no
\* connection; a call that raises after get_conn() leaves its connection open;
\* a call that returns leaves it open or finalized, never explicitly closed.
C11_OpenUnlessFinalized ==
    /\ (last.call = "create_work_order" /\ ~CreateOpensConnection(
            last.args.planned_qty, last.args.planned_start, last.args.planned_end))
          => connection = NoConnection
    /\ (last.call # "none" /\ last.err # NoErr /\ connection # NoConnection)
          => connection = "open"
    /\ (last.call # "none" /\ last.err = NoErr) => connection \in {"open", "closed"}

\* create_work_order raised 'product_id not found' inside the with block and
\* its connection is open.
C11_OpenAfterRaiseReached ==
    /\ last.call = "create_work_order"
    /\ last.err = ValueError("product_id not found")
    /\ connection = "open"

\* create_work_order returned the new id and its connection is open.
C11_OpenAfterReturnReached ==
    /\ last.call = "create_work_order"
    /\ last.err = NoErr
    /\ connection = "open"

====
